---- MODULE Spec2Model ----
(***************************************************************************)
(* Model of scripts/uso_cluster_to_json.py: the conversion of an HPC usage *)
(* log into the nested mapping timestamp -> user -> gpu_type -> jobid ->   *)
(* job record, by a full scan (parse_usage_file) or from the tail of the   *)
(* file only (parse_last_usage_file).                                      *)
(*                                                                         *)
(* Text is modelled structurally.  A line is a record                      *)
(*   [junk, kind, ...]                                                     *)
(* standing for `junk` units of non-blank filler ("###...") followed by    *)
(* one unit that holds the core text of the given kind, blank padded, and  *)
(* the newline.  One unit is 1 MiB of the file, the unit in which the tail *)
(* windows are measured.  A resource string is the sequence of its comma   *)
(* separated pieces; a piece is its key (the sequence of its ":" separated *)
(* parts) and the sequence of the segments that follow each "="; a segment *)
(* is its leading run of digits (lead, -1 when there is none) and the text *)
(* after it (rest, which starts with neither a digit, a sign nor "_").     *)
(***************************************************************************)
EXTENDS Integers, Sequences, FiniteSets, TLC

VARIABLES
    file,        \* tail mode: the lines of the input file
    pc,          \* position of the program
    tail,        \* tail mode: index into tail_sizes of the window tried next
    data,        \* the result mapping being built / returned
    current_ts,  \* the current timestamp context (None before the first)
    line,        \* full scan: the line processed last (NoLine before the first)
    nread,       \* full scan: number of lines read so far
    seen,        \* full scan: the timestamp strings of the Timestamp lines read
    before,      \* full scan: data and current_ts as they were before `line`
    filled       \* full scan: the timestamps under which a qualifying record was read

vars == <<file, pc, tail, data, current_ts, line, nread, seen, before, filled>>

\* ---------------------------------------------------------------- bounds
MaxLines == 4      \* full scan: lines in the input
MaxFileLen == 3    \* tail mode: lines in the input file

\* ---------------------------------------------------------------- values
None == "None"     \* Optional[str] without a value
NoneInt == -1      \* Optional[int] without a value
NoValue == << >>   \* dict.get() of a missing key
EmptyMap == << >>  \* {}
NoLine == [junk |-> 0, kind |-> "none"]

Seg(lead, rest) == [lead |-> lead, rest |-> rest]
Piece(key, vals) == [key |-> key, vals |-> vals]

TsLine(t) == [junk |-> 0, kind |-> "ts", text |-> t]
RecLine(j, u, t, s) == [junk |-> 0, kind |-> "rec", jobid |-> j, user |-> u, tres |-> t, state |-> s]
OtherLine(k, n) == [junk |-> n, kind |-> k]
Prefixed(l, n) == [l EXCEPT !.junk = n]

\* ---------------------------------------------------------------- is_timestamp_line
\* The stripped line when strptime accepts it: filler in front of the
\* timestamp text makes strptime fail, blanks around it do not.
is_timestamp_line(l) ==
    IF l.junk = 0 /\ l.kind = "ts" THEN l.text ELSE None

\* RECORD_RE.match(line): digits, user, resource string, upper-case state.
RECORD_RE(l) == l.junk = 0 /\ l.kind = "rec"

\* ---------------------------------------------------------------- parse_tres_alloc
RECURSIVE parse_tres_alloc(_)
\* Variant: a piece is kept only when it holds exactly one "=".
parse_tres_alloc_strict(tres) ==
    IF tres = << >> THEN EmptyMap
    ELSE LET part == tres[Len(tres)]
             result == parse_tres_alloc(SubSeq(tres, 1, Len(tres) - 1))
         IN  IF Len(part.vals) # 1 THEN result
             ELSE (part.key :> part.vals) @@ result

\* Pieces are taken left to right; result[key] = value overwrites.
parse_tres_alloc(tres) ==
    IF tres = << >> THEN EmptyMap
    ELSE LET part == tres[Len(tres)]
             result == parse_tres_alloc(SubSeq(tres, 1, Len(tres) - 1))
         IN  IF part.key = <<"">> /\ part.vals = << >> THEN result  \* not part
             ELSE IF part.vals = << >> THEN result                  \* '=' not in part
             ELSE (part.key :> part.vals) @@ result                 \* split('=', 1)

\* tres_dict.get(k)
Get(d, k) == IF k \in DOMAIN d THEN d[k] ELSE NoValue

\* ---------------------------------------------------------------- _safe_int
\* int(val) succeeds on a bare run of digits; otherwise the leading run of
\* digits of the whole value, or None when the value starts with none.
_safe_int(val) ==
    IF val = NoValue THEN NoneInt
    ELSE IF Len(val) = 1 /\ val[1].rest = "" /\ val[1].lead # -1 THEN val[1].lead
    ELSE val[1].lead

\* ---------------------------------------------------------------- ensure_nested
RECURSIVE ensure_nested(_, _)
\* The mapping d with a mapping at every prefix of keys (the code returns the
\* deepest one and mutates d; here the updated d is the value).
ensure_nested(d, keys) ==
    IF keys = << >> THEN d
    ELSE LET k == Head(keys)
             cur == IF k \in DOMAIN d THEN d ELSE (k :> EmptyMap) @@ d
         IN  [cur EXCEPT ![k] = ensure_nested(cur[k], Tail(keys))]

\* ---------------------------------------------------------------- record extraction
\* Keys like 'gres/gpu:a40': the pairs (gpu_type, value).  The keys of the
\* inputs have at most one ":", so the text after the first ":" is k[2].
\* Variant: startswith('gres/gpu'), which the untyped key passes too.
typed_gpu_entries_prefix(tres_dict) ==
    { <<IF Len(k) >= 2 THEN k[2] ELSE "", tres_dict[k]>> :
        k \in { q \in DOMAIN tres_dict : q[1] = "gres/gpu" } }

typed_gpu_entries(tres_dict) ==
    { <<k[2], tres_dict[k]>> :
        k \in { q \in DOMAIN tres_dict : q[1] = "gres/gpu" /\ Len(q) >= 2 } }

\* Variant: gpu_number read from the untyped gres/gpu total.
JobRecord_untyped(gpu_val, tres_dict, state) ==
    [ gpu_number |-> _safe_int(Get(tres_dict, <<"gres/gpu">>)),
      cpu        |-> _safe_int(Get(tres_dict, <<"cpu">>)),
      mem        |-> Get(tres_dict, <<"mem">>),
      node       |-> _safe_int(Get(tres_dict, <<"node">>)),
      billing    |-> _safe_int(Get(tres_dict, <<"billing">>)),
      state      |-> state ]

JobRecord(gpu_val, tres_dict, state) ==
    [ gpu_number |-> _safe_int(gpu_val),
      cpu        |-> _safe_int(Get(tres_dict, <<"cpu">>)),
      mem        |-> Get(tres_dict, <<"mem">>),
      node       |-> _safe_int(Get(tres_dict, <<"node">>)),
      billing    |-> _safe_int(Get(tres_dict, <<"billing">>)),
      state      |-> state ]

\* Variant: leaf.setdefault(jobid, rec), an entry already there is kept.
SetLeaf_keep(d, ts, user, gpu_type, jobid, rec) ==
    LET e == ensure_nested(d, <<ts, user, gpu_type>>)
    IN  [e EXCEPT ![ts][user][gpu_type] = @ @@ (jobid :> rec)]

\* leaf = ensure_nested(data, current_ts, user, gpu_type); leaf[jobid] = rec
SetLeaf(d, ts, user, gpu_type, jobid, rec) ==
    LET e == ensure_nested(d, <<ts, user, gpu_type>>)
    IN  [e EXCEPT ![ts][user][gpu_type] = (jobid :> rec) @@ @]

RECURSIVE InsertEntries(_, _, _, _, _, _, _)
\* Variant: only one of the typed GPU entries is written.
InsertEntries_first(d, ts, user, jobid, entries, tres_dict, state) ==
    IF entries = {} THEN d
    ELSE LET e == CHOOSE x \in entries : TRUE
         IN  SetLeaf(d, ts, user, e[1], jobid, JobRecord(e[2], tres_dict, state))

\* for gpu_type, gpu_val in typed_gpu_entries: ...   (the entries have
\* distinct gpu types, so the order of the loop does not show)
InsertEntries(d, ts, user, jobid, entries, tres_dict, state) ==
    IF entries = {} THEN d
    ELSE LET e == CHOOSE x \in entries : TRUE
         IN  InsertEntries(
                 SetLeaf(d, ts, user, e[1], jobid, JobRecord(e[2], tres_dict, state)),
                 ts, user, jobid, entries \ {e}, tres_dict, state)

\* The class of a line, in the order the loop body tests for it.
IsTimestamp(l) == is_timestamp_line(l) # None
IsBlank(l) == ~IsTimestamp(l) /\ l.junk = 0 /\ l.kind = "blank"
IsHeader(l) == ~IsTimestamp(l) /\ l.junk = 0 /\ l.kind = "hdr"
IsRecord(l) == ~IsTimestamp(l) /\ ~IsBlank(l) /\ ~IsHeader(l) /\ RECORD_RE(l)
IsUnrecognized(l) == ~IsTimestamp(l) /\ ~IsBlank(l) /\ ~IsHeader(l) /\ ~RECORD_RE(l)
TypedEntries(l) == typed_gpu_entries(parse_tres_alloc(l.tres))

\* Variant: no test for a record in front of the first timestamp.
ProcessLine_noctx(d, cur, l) ==
    IF IsTimestamp(l)
        THEN [data |-> ensure_nested(d, <<is_timestamp_line(l)>>),
              current_ts |-> is_timestamp_line(l)]
    ELSE IF ~IsRecord(l) THEN [data |-> d, current_ts |-> cur]
    ELSE IF TypedEntries(l) = {} THEN [data |-> d, current_ts |-> cur]
    ELSE [data |-> InsertEntries(d, cur, l.user, l.jobid, TypedEntries(l),
                                 parse_tres_alloc(l.tres), l.state),
          current_ts |-> cur]

\* Variant: a timestamp line sets the context only, its key is made by the
\* first record stored under it.
ProcessLine_lazy(d, cur, l) ==
    IF IsTimestamp(l) THEN [data |-> d, current_ts |-> is_timestamp_line(l)]
    ELSE IF ~IsRecord(l) THEN [data |-> d, current_ts |-> cur]
    ELSE IF cur = None THEN [data |-> d, current_ts |-> cur]
    ELSE IF TypedEntries(l) = {} THEN [data |-> d, current_ts |-> cur]
    ELSE [data |-> InsertEntries(d, cur, l.user, l.jobid, TypedEntries(l),
                                 parse_tres_alloc(l.tres), l.state),
          current_ts |-> cur]

\* Variant: the context is set by the first timestamp line only.
ProcessLine_first(d, cur, l) ==
    IF IsTimestamp(l)
        THEN [data |-> ensure_nested(d, <<is_timestamp_line(l)>>),
              current_ts |-> IF cur = None THEN is_timestamp_line(l) ELSE cur]
    ELSE IF ~IsRecord(l) THEN [data |-> d, current_ts |-> cur]
    ELSE IF cur = None THEN [data |-> d, current_ts |-> cur]
    ELSE IF TypedEntries(l) = {} THEN [data |-> d, current_ts |-> cur]
    ELSE [data |-> InsertEntries(d, cur, l.user, l.jobid, TypedEntries(l),
                                 parse_tres_alloc(l.tres), l.state),
          current_ts |-> cur]

\* One pass of the loop body of parse_usage_file on line l, from the
\* mapping d and the timestamp context cur.
ProcessLine(d, cur, l) ==
    IF IsTimestamp(l)
        THEN [data |-> ensure_nested(d, <<is_timestamp_line(l)>>),
              current_ts |-> is_timestamp_line(l)]
    ELSE IF ~IsRecord(l) THEN [data |-> d, current_ts |-> cur]
    ELSE IF cur = None THEN [data |-> d, current_ts |-> cur]
    ELSE IF TypedEntries(l) = {} THEN [data |-> d, current_ts |-> cur]
    ELSE [data |-> InsertEntries(d, cur, l.user, l.jobid, TypedEntries(l),
                                 parse_tres_alloc(l.tres), l.state),
          current_ts |-> cur]

RECURSIVE ParseFrom(_, _, _)
ParseFrom(d, cur, lines) ==
    IF lines = << >> THEN d
    ELSE LET st == ProcessLine(d, cur, Head(lines))
         IN  ParseFrom(st.data, st.current_ts, Tail(lines))

\* parse_usage_file on a file with the given lines
parse_usage_file(lines) == ParseFrom(EmptyMap, None, lines)

\* parse_usage_lines: the same loop over the lines it is given
parse_usage_lines(lines) == ParseFrom(EmptyMap, None, lines)

\* ---------------------------------------------------------------- inputs
T1 == "Thu Dec 18 04:37:01 2025"
T2 == "Thu Dec 18 04:38:01 2025"

cpu(n) == Piece(<<"cpu">>, <<Seg(n, "")>>)
mem(n, unit) == Piece(<<"mem">>, <<Seg(n, unit)>>)
node(n) == Piece(<<"node">>, <<Seg(n, "")>>)
billing(n) == Piece(<<"billing">>, <<Seg(n, "")>>)
gpu(n) == Piece(<<"gres/gpu">>, <<Seg(n, "")>>)
typed(t, n) == Piece(<<"gres/gpu", t>>, <<Seg(n, "")>>)

\* 61040 matbwyler cpu=32,mem=64G,node=1,billing=32,gres/gpu=4,gres/gpu:a40=4 RUNNING
R1 == RecLine("61040", "matbwyler",
              <<cpu(32), mem(64, "G"), node(1), billing(32), gpu(4), typed("a40", 4)>>,
              "RUNNING")
\* 61040 matbwyler cpu=8,mem=16G,node=2,gres/gpu:a40=2 PENDING
R2 == RecLine("61040", "matbwyler",
              <<cpu(8), mem(16, "G"), node(2), typed("a40", 2)>>, "PENDING")
\* 7 ana cpu=4,gres/gpu:a40=2,gres/gpu:a100=1 RUNNING
R3 == RecLine("7", "ana", <<cpu(4), typed("a40", 2), typed("a100", 1)>>, "RUNNING")
\* 8 bob cpu=2,mem=4G,gres/gpu=1,gres/gpu:a40 RUNNING
R4 == RecLine("8", "bob",
              <<cpu(2), mem(4, "G"), gpu(1), Piece(<<"gres/gpu", "a40">>, << >>)>>,
              "RUNNING")
\* 9 eve cpu,,gres/gpu:a40=2=3 RUNNING
R5 == RecLine("9", "eve",
              <<Piece(<<"cpu">>, << >>), Piece(<<"">>, << >>),
                Piece(<<"gres/gpu", "a40">>, <<Seg(2, ""), Seg(3, "")>>)>>,
              "RUNNING")
\* 10 matbwyler cpu=abc,node=2x,gres/gpu:a100=1,gres/gpu:a100=3 COMPLETED
R6 == RecLine("10", "matbwyler",
              <<Piece(<<"cpu">>, <<Seg(-1, "abc")>>), Piece(<<"node">>, <<Seg(2, "x")>>),
                typed("a100", 1), typed("a100", 3)>>,
              "COMPLETED")

Header == OtherLine("hdr", 0)
Blank == OtherLine("blank", 0)
Noise == OtherLine("junk", 0)

\* The lines a full scan reads; the last one is T1 behind one unit of filler.
LineSet ==
    { TsLine(T1), TsLine(T2), Header, Blank, Noise, Prefixed(TsLine(T1), 1),
      R1, R2, R3, R4, R5, R6 }

\* ---------------------------------------------------------------- full scan
InitScan ==
    /\ file = << >>
    /\ pc = "scan"
    /\ tail = 0
    /\ data = EmptyMap
    /\ current_ts = None
    /\ line = NoLine
    /\ nread = 0
    /\ seen = {}
    /\ before = [data |-> EmptyMap, current_ts |-> None]
    /\ filled = {}

\* The pieces of the resource string of l, as written on the line, whose
\* key reads gres/gpu:<type> and which hold at least one "=".
TypedPieces(l) ==
    { i \in 1..Len(l.tres) :
        /\ l.tres[i].key[1] = "gres/gpu"
        /\ Len(l.tres[i].key) >= 2
        /\ l.tres[i].vals # << >> }

\* l is a Record line with a typed GPU piece, read under a timestamp.
Qualifies(l) == IsRecord(l) /\ current_ts # None /\ TypedPieces(l) # {}

\* for raw_line in f: the loop body on the next line l of the input
Read(l) ==
    /\ pc = "scan"
    /\ nread < MaxLines
    /\ data' = ProcessLine(data, current_ts, l).data
    /\ current_ts' = ProcessLine(data, current_ts, l).current_ts
    /\ line' = l
    /\ nread' = nread + 1
    /\ seen' = IF IsTimestamp(l) THEN seen \cup {is_timestamp_line(l)} ELSE seen
    /\ before' = [data |-> data, current_ts |-> current_ts]
    /\ filled' = IF Qualifies(l) THEN filled \cup {current_ts} ELSE filled
    /\ UNCHANGED <<file, pc, tail>>

TimestampLine == \E l \in LineSet : IsTimestamp(l) /\ Read(l)
BlankLine == \E l \in LineSet : IsBlank(l) /\ Read(l)
HeaderLine == \E l \in LineSet : IsHeader(l) /\ Read(l)
UnrecognizedLine == \E l \in LineSet : IsUnrecognized(l) /\ Read(l)
RecordBeforeTimestamp == \E l \in LineSet : IsRecord(l) /\ current_ts = None /\ Read(l)
RecordWithoutTypedGpu ==
    \E l \in LineSet : IsRecord(l) /\ current_ts # None /\ TypedEntries(l) = {} /\ Read(l)
RecordInserted ==
    \E l \in LineSet : IsRecord(l) /\ current_ts # None /\ TypedEntries(l) # {} /\ Read(l)

\* end of the input: return data
EndOfFile ==
    /\ pc = "scan"
    /\ pc' = "done"
    /\ UNCHANGED <<file, tail, data, current_ts, line, nread, seen, before, filled>>

Next ==
    \/ TimestampLine
    \/ BlankLine
    \/ HeaderLine
    \/ UnrecognizedLine
    \/ RecordBeforeTimestamp
    \/ RecordWithoutTypedGpu
    \/ RecordInserted
    \/ EndOfFile

Spec == InitScan /\ [][Next]_vars

\* ---------------------------------------------------------------- tail mode
Max(a, b) == IF a >= b THEN a ELSE b

\* The bytes of a line, in units of 1 MiB: the filler and the core text.
Size(l) == l.junk + 1

RECURSIVE getsize(_)
\* os.path.getsize(path)
getsize(lines) == IF lines = << >> THEN 0 ELSE Size(Head(lines)) + getsize(Tail(lines))

\* Progressive tail sizes (4MB -> 16MB -> 64MB -> full file), in MiB
tail_sizes(filesize) == <<4, 16, 64, filesize>>

RECURSIVE ReadFrom(_, _)
\* fb.seek(start); fb.read(filesize - start); text.splitlines(): the lines
\* of the file from byte start on.  A line that start falls into loses the
\* filler in front of start, a line that ends at or before start is left out.
ReadFrom(lines, start) ==
    IF start = 0 \/ lines = << >> THEN lines
    ELSE IF start >= Size(Head(lines)) THEN ReadFrom(Tail(lines), start - Size(Head(lines)))
    ELSE <<[Head(lines) EXCEPT !.junk = @ - start]>> \o Tail(lines)

\* The lines of the window tried k-th.
Window(k) ==
    ReadFrom(file, Max(0, getsize(file) - tail_sizes(getsize(file))[k]))

\* Walk from the end to find the last timestamp line: its (1-based) index in
\* lines, 0 when there is none.
last_ts_idx(lines) ==
    IF \E i \in 1..Len(lines) : IsTimestamp(lines[i])
        THEN CHOOSE i \in 1..Len(lines) :
                 /\ IsTimestamp(lines[i])
                 /\ \A j \in (i + 1)..Len(lines) : ~IsTimestamp(lines[j])
        ELSE 0

\* lines[last_ts_idx:]
tail_lines(lines) == SubSeq(lines, last_ts_idx(lines), Len(lines))

\* A noise line of n MiB
NoiseOf(n) == OtherLine("junk", n - 1)

\* The lines of the files read in tail mode
TailLineSet ==
    { TsLine(T1), TsLine(T2), Prefixed(TsLine(T1), 1), Header, R1, R3,
      NoiseOf(1), NoiseOf(3), NoiseOf(15), NoiseOf(63) }

Files == UNION { [1..n -> TailLineSet] : n \in 0..MaxFileLen }

InitLast ==
    /\ file \in Files
    /\ pc = "last"
    /\ tail = 1
    /\ data = EmptyMap
    /\ current_ts = None
    /\ line = NoLine
    /\ nread = 0
    /\ seen = {}
    /\ before = [data |-> EmptyMap, current_ts |-> None]
    /\ filled = {}

\* if filesize == 0: return {}
LastEmptyFile ==
    /\ pc = "last"
    /\ getsize(file) = 0
    /\ data' = EmptyMap
    /\ pc' = "done"
    /\ UNCHANGED <<file, tail, current_ts, line, nread, seen, before, filled>>

\* A window with a timestamp line: parse from it to the end and return.
LastWindowFound ==
    /\ pc = "last"
    /\ getsize(file) # 0
    /\ tail <= 4
    /\ last_ts_idx(Window(tail)) # 0
    /\ data' = parse_usage_lines(tail_lines(Window(tail)))
    /\ pc' = "done"
    /\ UNCHANGED <<file, tail, current_ts, line, nread, seen, before, filled>>

\* A window without a timestamp line: on to the next tail size.
LastWindowNotFound ==
    /\ pc = "last"
    /\ getsize(file) # 0
    /\ tail <= 4
    /\ last_ts_idx(Window(tail)) = 0
    /\ tail' = tail + 1
    /\ UNCHANGED <<file, pc, data, current_ts, line, nread, seen, before, filled>>

\* Fallback: parse entire file
LastFallback ==
    /\ pc = "last"
    /\ getsize(file) # 0
    /\ tail = 5
    /\ data' = parse_usage_file(file)
    /\ pc' = "done"
    /\ UNCHANGED <<file, tail, current_ts, line, nread, seen, before, filled>>

NextLast ==
    \/ LastEmptyFile
    \/ LastWindowFound
    \/ LastWindowNotFound
    \/ LastFallback

SpecLast == InitLast /\ [][NextLast]_vars

\* ================================================================ properties
\* The paths [ts][user][gpu_type][jobid] of a mapping and the record at one.
Paths(d) ==
    UNION { UNION { UNION { { <<t, u, g, j>> : j \in DOMAIN d[t][u][g] }
                            : g \in DOMAIN d[t][u] }
                    : u \in DOMAIN d[t] }
            : t \in DOMAIN d }
At(d, p) == d[p[1]][p[2]][p[3]][p[4]]

\* The paths that e holds and d does not hold with the same record.
Changed(d, e) == { p \in Paths(e) : p \notin Paths(d) \/ At(d, p) # At(e, p) }

IsBareInt(vals) == Len(vals) = 1 /\ vals[1].rest = "" /\ vals[1].lead >= 0
PathOf(ts, l, i) == <<ts, l.user, l.tres[i].key[2], l.jobid>>

\* A line has been read, and it was a Record line read under a timestamp.
RecordRead == nread > 0 /\ IsRecord(line) /\ before.current_ts # None

\* ---------------------------------------------------------------- C3
OneTypedGpu(l) ==
    /\ Cardinality(TypedPieces(l)) = 1
    /\ \A i \in TypedPieces(l) : IsBareInt(l.tres[i].vals)

\* C3: once a valid Record line with exactly one typed GPU key gres/gpu:<type>=n
\* has been processed under the current timestamp ts, the mapping holds a
\* record at [ts][user][type][jobid] with gpu_number = n, and that path is
\* the only one the line has added or changed.
C3_OneTypedGpuOneRecord ==
    (RecordRead /\ OneTypedGpu(line)) =>
        \A i \in TypedPieces(line) :
            LET p == PathOf(current_ts, line, i)
            IN  /\ p \in Paths(data)
                /\ At(data, p).gpu_number = line.tres[i].vals[1].lead
                /\ Changed(before.data, data) \subseteq {p}
                /\ Paths(before.data) \subseteq Paths(data)

C3_Witness ==
    /\ RecordRead /\ OneTypedGpu(line)
    /\ Changed(before.data, data) # {}
    /\ \E p \in Paths(data) : At(data, p).gpu_number = 2 /\ p[4] = line.jobid

\* ---------------------------------------------------------------- C4
\* C4: a Record line without a typed GPU key leaves the mapping as it was,
\* and no user or GPU-type key of the mapping ever has an empty mapping as
\* its value.
C4_NoTypedGpuNoEntry ==
    /\ (nread > 0 /\ IsRecord(line) /\ TypedPieces(line) = {}) => data = before.data
    /\ \A t \in DOMAIN data : \A u \in DOMAIN data[t] :
           /\ DOMAIN data[t][u] # {}
           /\ \A g \in DOMAIN data[t][u] : DOMAIN data[t][u][g] # {}

C4_Witness ==
    /\ RecordRead /\ TypedPieces(line) = {}
    /\ \E i \in 1..Len(line.tres) : line.tres[i].key = <<"gres/gpu">>
    /\ Paths(data) # {}
    /\ line.user \notin DOMAIN data[current_ts]

\* ---------------------------------------------------------------- C5
\* C5: while no Timestamp line has been processed the mapping is empty,
\* whatever Record lines have been processed.
C5_RecordBeforeTimestamp == seen = {} => DOMAIN data = {}

C5_Witness ==
    /\ seen = {} /\ nread >= 2
    /\ IsRecord(line) /\ TypedPieces(line) # {}

\* ---------------------------------------------------------------- C6
\* C6: the top-level keys are the distinct Timestamp lines read so far, and
\* the value of a timestamp under which no qualifying record has been read
\* is the empty mapping (and of no other); a Timestamp line whose string is
\* new adds its key with an empty mapping, a repeated one changes nothing.
C6_TimestampKeys ==
    /\ DOMAIN data = seen
    /\ \A t \in seen : (t \notin filled) <=> (DOMAIN data[t] = {})
    /\ (nread > 0 /\ IsTimestamp(line)) =>
           /\ DOMAIN data = DOMAIN before.data \cup {line.text}
           /\ \A t \in DOMAIN before.data : data[t] = before.data[t]

C6_Witness ==
    /\ nread >= 3 /\ IsTimestamp(line)
    /\ line.text \notin DOMAIN before.data
    /\ DOMAIN data[line.text] = {}
    /\ \E t \in DOMAIN data : DOMAIN data[t] # {}

\* ---------------------------------------------------------------- C7
TwoTypedGpu(l) ==
    /\ Cardinality(TypedPieces(l)) = 2
    /\ Cardinality({ l.tres[i].key[2] : i \in TypedPieces(l) }) = 2
    /\ \A i \in TypedPieces(l) : IsBareInt(l.tres[i].vals)

\* C7: once a Record line with two typed GPU keys has been processed under
\* the timestamp ts, the mapping holds one record per GPU type at
\* [ts][user][type][jobid], each with the gpu_number of its own key, the two
\* equal in cpu, mem, node, billing and state; no other path is touched.
C7_TwoTypedGpuTwoRecords ==
    (RecordRead /\ TwoTypedGpu(line)) =>
        /\ \A i \in TypedPieces(line) :
               /\ PathOf(current_ts, line, i) \in Paths(data)
               /\ At(data, PathOf(current_ts, line, i)).gpu_number = line.tres[i].vals[1].lead
               /\ At(data, PathOf(current_ts, line, i)).state = line.state
        /\ \A i, j \in TypedPieces(line) :
               [At(data, PathOf(current_ts, line, i)) EXCEPT !.gpu_number = 0]
                   = [At(data, PathOf(current_ts, line, j)) EXCEPT !.gpu_number = 0]
        /\ Changed(before.data, data)
               \subseteq { PathOf(current_ts, line, i) : i \in TypedPieces(line) }

C7_Witness ==
    /\ RecordRead /\ TwoTypedGpu(line)
    /\ Cardinality(Changed(before.data, data)) = 2
    /\ Cardinality({ At(data, p).gpu_number : p \in Changed(before.data, data) }) = 2

\* ---------------------------------------------------------------- C8
\* What the line alone produces under the timestamp ts.
Alone(ts, l) == ProcessLine(EmptyMap, ts, l).data

\* C8: when a retained Record line resolves to a path that already holds a
\* record, the entry at that path afterwards is the one the line alone
\* produces (all six fields of the later line, none of the earlier), and
\* every entry at another path is as it was.
C8_LastWriteWins ==
    (RecordRead /\ Paths(Alone(current_ts, line)) \cap Paths(before.data) # {}) =>
        /\ \A p \in Paths(Alone(current_ts, line)) :
               p \in Paths(data) /\ At(data, p) = At(Alone(current_ts, line), p)
        /\ \A q \in Paths(before.data) \ Paths(Alone(current_ts, line)) :
               q \in Paths(data) /\ At(data, q) = At(before.data, q)

C8_Witness ==
    /\ RecordRead
    /\ \E p \in Paths(Alone(current_ts, line)) \cap Paths(before.data) :
           /\ At(before.data, p).billing = 32
           /\ At(data, p).billing = NoneInt
           /\ At(data, p).state # At(before.data, p).state
    /\ Paths(before.data) \ Paths(Alone(current_ts, line)) # {}

\* ---------------------------------------------------------------- C9
\* C9 as stated: only a piece with exactly one "=" gives a key of the parsed
\* resource string, so a record whose typed GPU pieces all hold two or more
\* "=" is dropped.
C9_ExactlyOneEquals ==
    (nread > 0 /\ IsRecord(line)) =>
        /\ \A k \in DOMAIN parse_tres_alloc(line.tres) :
               \E i \in 1..Len(line.tres) :
                   line.tres[i].key = k /\ Len(line.tres[i].vals) = 1
        /\ (\A i \in TypedPieces(line) : Len(line.tres[i].vals) >= 2) =>
               data = before.data

\* C9 amended: a piece gives a key exactly when it holds at least one "="; the
\* value is all the text after the first "=" of the last piece with that key.
\* A record under a timestamp whose only typed GPU piece holds two "=" is
\* retained, with gpu_number the leading digits of that text.
C9_AtLeastOneEquals ==
    (nread > 0 /\ IsRecord(line)) =>
        /\ DOMAIN parse_tres_alloc(line.tres)
               = { line.tres[i].key : i \in { j \in 1..Len(line.tres) : line.tres[j].vals # << >> } }
        /\ \A i \in 1..Len(line.tres) :
               (/\ line.tres[i].vals # << >>
                /\ \A j \in (i + 1)..Len(line.tres) :
                       line.tres[j].key # line.tres[i].key \/ line.tres[j].vals = << >>)
                   => parse_tres_alloc(line.tres)[line.tres[i].key] = line.tres[i].vals
        /\ (/\ before.current_ts # None
            /\ Cardinality(TypedPieces(line)) = 1
            /\ \A i \in TypedPieces(line) : Len(line.tres[i].vals) >= 2) =>
               \A i \in TypedPieces(line) :
                   /\ PathOf(current_ts, line, i) \in Paths(data)
                   /\ At(data, PathOf(current_ts, line, i)).gpu_number
                          = line.tres[i].vals[1].lead

C9_Witness ==
    /\ RecordRead
    /\ \E i \in TypedPieces(line) :
           /\ Len(line.tres[i].vals) = 2
           /\ PathOf(current_ts, line, i) \in Changed(before.data, data)
    /\ \E i \in 1..Len(line.tres) : line.tres[i].vals = << >>

\* ---------------------------------------------------------------- C10
\* C10: a Timestamp line becomes the current timestamp; any other line leaves
\* the current timestamp, the top-level keys and every entry under another
\* timestamp key as they were, so a retained record goes under the most
\* recent Timestamp line only.
C10_TimestampScopes ==
    nread > 0 =>
        /\ IsTimestamp(line) => current_ts = line.text
        /\ ~IsTimestamp(line) =>
               /\ current_ts = before.current_ts
               /\ DOMAIN data = DOMAIN before.data
               /\ \A t \in DOMAIN data \ {current_ts} : data[t] = before.data[t]
               /\ \A p \in Changed(before.data, data) : p[1] = current_ts

C10_Witness ==
    /\ RecordRead
    /\ Changed(before.data, data) # {}
    /\ \E t \in DOMAIN data \ {current_ts} : DOMAIN data[t] # {}
    /\ \E p \in Paths(data) : p[1] # current_ts /\ p[2] = line.user

\* ---------------------------------------------------------------- C1, C2
HasTimestamp(f) == \E i \in 1..Len(f) : IsTimestamp(f[i])
LastTimestamp(f) ==
    CHOOSE i \in 1..Len(f) :
        IsTimestamp(f[i]) /\ \A j \in (i + 1)..Len(f) : ~IsTimestamp(f[j])

\* C1: for a file with a Timestamp line, what tail-only parsing returns for
\* the last timestamp of the file is what full-file parsing holds under that
\* key.
C1_TailEqualsFull ==
    (pc = "done" /\ HasTimestamp(file)) =>
        LET t == file[LastTimestamp(file)].text
        IN  /\ t \in DOMAIN data
            /\ data[t] = parse_usage_file(file)[t]

\* C2: the windows are tried in the order 4MB, 16MB, 64MB, whole file, up to
\* the first one with a Timestamp line; the result has the last Timestamp
\* line of the file as its only key, with the records of the lines after it,
\* and is empty when the file has no Timestamp line.
C2_TailResult ==
    /\ [](pc = "done" =>
            IF HasTimestamp(file)
                THEN LET i == LastTimestamp(file)
                     IN  /\ DOMAIN data = {file[i].text}
                         /\ data = parse_usage_lines(SubSeq(file, i, Len(file)))
                ELSE DOMAIN data = {})
    /\ [][/\ tail' # tail => (tail' = tail + 1 /\ ~HasTimestamp(Window(tail)))
          /\ (pc' = "done" /\ tail <= 4 /\ file # << >>) => HasTimestamp(Window(tail))]_vars

====
